---- MODULE Spec2Model ----
(***************************************************************************)
(* The FromEmail block of streamtools (st/library/fromEmail.go): the       *)
(* control loop Run, the credential parser parseAuthRules, the connection  *)
(* builder newIMAPClient, the fetcher fetchUnread and the goroutine idle.  *)
(*                                                                         *)
(* Run is one process; every `go e.idle()` starts one more.  The two share *)
(* the field e.client without synchronisation, so the steps of Run that    *)
(* touch the network are separate actions and idle's read of e.client is   *)
(* an action of its own that sees whatever Run stored last.                *)
(***************************************************************************)
EXTENDS Naturals, Integers, Sequences, FiniteSets, TLC

\* ------------------------------------------------------------------ bounds
MaxRules == 2      \* rule messages delivered on e.inrule in one run
MaxMsgs  == 2      \* messages the server's mailbox can hold

\* --------------------------------------------------------------- constants
Strs == {"a", "b"}                       \* string values a rule can carry
Keys == {"Host", "Username", "Password", "Mailbox"}

\* one value of a rule's map: a string, or no string under that key
FieldVals == [t : {"string"}, s : Strs] \cup {[t |-> "absent", s |-> ""]}
Msgs == [Keys -> FieldVals]

Handles == 1 .. MaxRules                 \* *imap.Client values DialTLS can return
Watchers == 1 .. MaxRules                \* goroutines started by `go e.idle()`
NilClient == 0                           \* the nil *imap.Client

VARIABLES
  host, username, password, mailbox,     \* FromEmail's credential fields
  client,                                \* e.client: NilClient or a handle
  pc,                                    \* where Run is
  deferred,                              \* Run's stack of deferred Close calls
  cmdData, emails,                       \* fetchUnread's locals: sweep and batch results
  wpc,                                   \* where each idle goroutine is
  connState, idleActive, closeCalls,     \* per handle: the connection, its IDLE, Close calls
  nextH,                                 \* handles handed out so far
  inbox,                                 \* number of messages in the server's mailbox
  out,                                   \* what went to e.out since the last rule arrived, in order
  errs,                                  \* what went to e.Error since the last rule arrived, in order
  \* history of the run, written by the actions and read only by the properties
  nRules, lastRule, accepted, lastReply, lastOpen, fetchLog,
  wsess                                  \* per goroutine: e.client when it was started, and the client it armed

vars == <<host, username, password, mailbox, client, pc, deferred, cmdData, emails,
          wpc, connState, idleActive, closeCalls, nextH, inbox, out, errs,
          nRules, lastRule, accepted, lastReply, lastOpen, fetchLog, wsess>>

creds == <<host, username, password, mailbox>>
conns == <<connState, idleActive, closeCalls, nextH>>
fetchLocals == <<cmdData, emails>>
history == <<nRules, lastRule, accepted, lastReply, lastOpen, fetchLog>>

NoSnapshot == [has |-> FALSE, Host |-> "", Username |-> "", Password |-> "", Mailbox |-> ""]
NoFetch == [done |-> FALSE, held |-> 0, swept |-> 0, dropped |-> 0, bad |-> {}, err |-> FALSE]
NoSession == [born |-> NilClient, armed |-> NilClient]

\* -------------------------------------------------------------- NewFromEmail
Init ==
  /\ host = "imap.gmail.com" /\ username = "" /\ password = "" /\ mailbox = "INBOX"
  /\ client = NilClient
  /\ pc = "select"
  /\ deferred = <<>>
  /\ cmdData = <<>> /\ emails = <<>>
  /\ wpc = [w \in Watchers |-> "none"]
  /\ connState = [h \in Handles |-> "none"]
  /\ idleActive = [h \in Handles |-> FALSE]
  /\ closeCalls = [h \in Handles |-> 0]
  /\ nextH = 0
  /\ inbox = 0
  /\ out = <<>>
  /\ errs = <<>>
  /\ nRules = 0 /\ lastRule = "none" /\ accepted = NoSnapshot /\ lastReply = NoSnapshot
  /\ lastOpen = "none" /\ fetchLog = NoFetch
  /\ wsess = [w \in Watchers |-> NoSession]

\* ------------------------------------------------------------ Block.Error
Error(log, msg) == Append(log, msg)

RECURSIVE ErrorN(_, _, _)
ErrorN(log, msg, n) == IF n = 0 THEN log ELSE ErrorN(Error(log, msg), msg, n - 1)

\* a nil dereference in Run or in a goroutine takes the whole process down
Crashed == pc = "panic" \/ \E w \in Watchers : wpc[w] = "panic"

\* ------------------------------------------------- util.ParseRequiredString
ParseRequiredString(msgI, key) ==
  IF msgI[key].t = "string"
    THEN [val |-> msgI[key].s, err |-> ""]
    ELSE [val |-> "", err |-> key]

\* parseAuthRules with the check of the last helper call left out
parseAuthRulesNoMailboxCheck(e, msgI) ==
  LET h  == ParseRequiredString(msgI, "Host")
      e1 == [e EXCEPT !.host = h.val]
      u  == ParseRequiredString(msgI, "Username")
      e2 == [e1 EXCEPT !.username = u.val]
      p  == ParseRequiredString(msgI, "Password")
      e3 == [e2 EXCEPT !.password = p.val]
      m  == ParseRequiredString(msgI, "Mailbox")
      e4 == [e3 EXCEPT !.password = m.val]
  IN  IF h.err # "" THEN [e |-> e1, err |-> h.err]
      ELSE IF u.err # "" THEN [e |-> e2, err |-> u.err]
      ELSE IF p.err # "" THEN [e |-> e3, err |-> p.err]
      ELSE [e |-> e4, err |-> ""]

\* ------------------------------------------------------------ parseAuthRules
\* Each field is assigned from the helper's result before err is looked at,
\* and the fourth result goes to e.password.
parseAuthRules(e, msgI) ==
  LET h  == ParseRequiredString(msgI, "Host")
      e1 == [e EXCEPT !.host = h.val]
      u  == ParseRequiredString(msgI, "Username")
      e2 == [e1 EXCEPT !.username = u.val]
      p  == ParseRequiredString(msgI, "Password")
      e3 == [e2 EXCEPT !.password = p.val]
      m  == ParseRequiredString(msgI, "Mailbox")
      e4 == [e3 EXCEPT !.password = m.val]
  IN  IF h.err # "" THEN [e |-> e1, err |-> h.err]
      ELSE IF u.err # "" THEN [e |-> e2, err |-> u.err]
      ELSE IF p.err # "" THEN [e |-> e3, err |-> p.err]
      ELSE IF m.err # "" THEN [e |-> e4, err |-> m.err]
      ELSE [e |-> e4, err |-> ""]

\* a rule that carries all four required fields as strings
WellFormed(msgI) == \A k \in Keys : msgI[k].t = "string"

\* Run, case msgI := <-e.inrule, up to the call of newIMAPClient
RuleReceive ==
  /\ pc = "select" /\ ~Crashed
  /\ nRules < MaxRules
  /\ \E msgI \in Msgs :
       LET r == parseAuthRules([host |-> host, username |-> username,
                                password |-> password, mailbox |-> mailbox], msgI)
       IN  /\ host' = r.e.host /\ username' = r.e.username
           /\ password' = r.e.password /\ mailbox' = r.e.mailbox
           /\ IF r.err # ""
                THEN /\ errs' = Error(<<>>, r.err)
                     /\ pc' = "select"
                ELSE /\ errs' = <<>>
                     /\ pc' = "open"
           /\ lastRule' = IF WellFormed(msgI) THEN "wellformed" ELSE "malformed"
           /\ accepted' = IF r.err = ""
                            THEN [has |-> TRUE, Host |-> msgI["Host"].s, Username |-> msgI["Username"].s,
                                  Password |-> msgI["Password"].s, Mailbox |-> msgI["Mailbox"].s]
                            ELSE NoSnapshot
  /\ nRules' = nRules + 1
  /\ lastReply' = NoSnapshot
  /\ out' = <<>>
  /\ fetchLog' = NoFetch
  /\ UNCHANGED <<client, deferred, fetchLocals, wpc, conns, inbox, lastOpen, wsess>>

\* Run, case respChan := <-e.queryrule
Query ==
  /\ pc = "select" /\ ~Crashed
  /\ lastReply' = [has |-> TRUE, Host |-> host, Username |-> username,
                   Password |-> password, Mailbox |-> mailbox]
  /\ UNCHANGED <<creds, client, pc, deferred, fetchLocals, wpc, conns, inbox, out, errs,
                 nRules, lastRule, accepted, lastOpen, fetchLog, wsess>>

\* ------------------------------------------------------------- newIMAPClient
\* What the three calls leave behind for each place they can fail.  DialTLS
\* gives no client on failure; after that the client exists and is returned
\* together with the error, still connected.
DialOutcomes == {"dial", "login", "select", "ok"}

newIMAPClient(outcome, h) ==
  CASE outcome = "dial"   -> [conn |-> NilClient, state |-> "none",      err |-> "dial"]
    [] outcome = "login"  -> [conn |-> h,         state |-> "connected", err |-> "login"]
    [] outcome = "select" -> [conn |-> h,         state |-> "auth",      err |-> "select"]
    [] outcome = "ok"     -> [conn |-> h,         state |-> "selected",  err |-> ""]

\* Run: e.client, err = newIMAPClient(...); on success defer e.client.Close(true)
RuleOpen ==
  /\ pc = "open" /\ ~Crashed
  /\ \E outcome \in DialOutcomes :
       LET r == newIMAPClient(outcome, nextH + 1)
       IN  /\ client' = r.conn
           /\ IF r.conn # NilClient
                THEN /\ nextH' = nextH + 1
                     /\ connState' = [connState EXCEPT ![r.conn] = r.state]
                ELSE UNCHANGED <<nextH, connState>>
           /\ IF r.err # ""
                THEN /\ errs' = Error(errs, r.err)
                     /\ deferred' = deferred
                     /\ pc' = "select"
                ELSE /\ errs' = errs
                     /\ deferred' = <<r.conn>> \o deferred
                     /\ pc' = "fetchUnread"
           /\ lastOpen' = outcome
  /\ UNCHANGED <<creds, fetchLocals, wpc, idleActive, closeCalls, inbox, out,
                 nRules, lastRule, accepted, lastReply, fetchLog, wsess>>

\* --------------------------------------------------------------- fetchUnread
\* findUnreadEmails: FETCH 1:* (RFC822.HEADER UID); one response per message
findUnreadEmails(n) == [i \in 1 .. n |-> i]

\* getEmails building its result back to front
getEmailsReversed(cmd) == [i \in 1 .. Len(cmd) |-> cmd[Len(cmd) + 1 - i]]

\* getEmails: UID FETCH of the swept identifiers; one record per identifier
getEmails(cmd) == cmd

\* the emails whose json.Marshal succeeded, in order (bad: indices that failed)
RECURSIVE Marshalled(_, _, _)
Marshalled(es, bad, i) ==
  IF i > Len(es) THEN <<>>
  ELSE (IF i \in bad THEN <<>> ELSE <<es[i]>>) \o Marshalled(es, bad, i + 1)

\* fetchUnread, first half: the header sweep
FetchSweep ==
  /\ pc = "fetchUnread" /\ ~Crashed
  /\ \/ /\ cmdData' = findUnreadEmails(inbox)
        /\ pc' = "getEmails"
        /\ errs' = errs
        /\ fetchLog' = [NoFetch EXCEPT !.held = inbox]
     \/ /\ cmdData' = <<>>
        /\ errs' = Error(errs, "fetch")
        /\ fetchLog' = [NoFetch EXCEPT !.held = inbox, !.done = TRUE, !.err = TRUE]
        /\ pc' = "select"
  /\ emails' = <<>>
  /\ UNCHANGED <<creds, client, deferred, wpc, conns, inbox, out,
                 nRules, lastRule, accepted, lastReply, lastOpen, wsess>>

\* fetchUnread, second half: the batched retrieval
FetchBatch ==
  /\ pc = "getEmails" /\ ~Crashed
  /\ \/ /\ emails' = getEmails(cmdData)
        /\ pc' = "emit"
        /\ UNCHANGED <<errs, fetchLog>>
     \/ /\ emails' = <<>>
        /\ errs' = Error(errs, "uidfetch")
        /\ fetchLog' = [fetchLog EXCEPT !.done = TRUE, !.swept = Len(cmdData), !.err = TRUE]
        /\ pc' = "select"
  /\ UNCHANGED <<creds, client, deferred, cmdData, wpc, conns, inbox, out,
                 nRules, lastRule, accepted, lastReply, lastOpen, wsess>>

\* the emails before the first json.Marshal failure
RECURSIVE MarshalledUntilFailure(_, _, _)
MarshalledUntilFailure(es, bad, i) ==
  IF i > Len(es) \/ i \in bad THEN <<>>
  ELSE <<es[i]>> \o MarshalledUntilFailure(es, bad, i + 1)

\* the range loop with a `break` for its `continue`
EmittedBreak(es, bad) == MarshalledUntilFailure(es, bad, 1)

\* the range loop without its `continue`: the event goes out all the same
EmittedNoContinue(es, bad) == es

\* what the range loop of fetchUnread sends to e.out
Emitted(es, bad) == Marshalled(es, bad, 1)

\* fetchUnread, the range loop over emails, and its return nil
FetchEmit ==
  /\ pc = "emit" /\ ~Crashed
  /\ \E bad \in SUBSET (1 .. Len(emails)) :
       /\ out' = out \o Emitted(emails, bad)
       /\ errs' = ErrorN(errs, "marshal", Cardinality(bad))
       /\ fetchLog' = [fetchLog EXCEPT !.done = TRUE, !.swept = Len(cmdData),
                                        !.dropped = Cardinality(bad), !.bad = bad]
  /\ pc' = "go_idle"
  /\ UNCHANGED <<creds, client, deferred, fetchLocals, wpc, conns, inbox,
                 nRules, lastRule, accepted, lastReply, lastOpen, wsess>>

\* ---------------------------------------------------------------- go e.idle()
Started == {w \in Watchers : wpc[w] # "none"}

RuleSpawn ==
  /\ pc = "go_idle" /\ ~Crashed
  /\ wpc' = [wpc EXCEPT ![Cardinality(Started) + 1] = "arm"]
  /\ wsess' = [wsess EXCEPT ![Cardinality(Started) + 1].born = client]
  /\ pc' = "select"
  /\ UNCHANGED <<creds, client, deferred, fetchLocals, conns, inbox, out, errs, history>>

\* ----------------------------------------------------------------------- idle
\* _, err = e.client.Idle(): the goroutine reads e.client when it gets to run.
\* After a successful Idle it makes the unbuffered channel poll and sends on
\* it; nothing else holds poll, so the send never completes and the goroutine
\* stays at "send_poll".
IdleArm(w) ==
  /\ wpc[w] = "arm" /\ ~Crashed
  /\ IF client = NilClient
       THEN /\ wpc' = [wpc EXCEPT ![w] = "panic"]
            /\ UNCHANGED <<idleActive, errs, wsess>>
       ELSE \/ /\ connState[client] = "selected" /\ ~idleActive[client]
               /\ idleActive' = [idleActive EXCEPT ![client] = TRUE]
               /\ wpc' = [wpc EXCEPT ![w] = "send_poll"]
               /\ wsess' = [wsess EXCEPT ![w].armed = client]
               /\ errs' = errs
            \/ /\ errs' = Error(errs, "idle")
               /\ wpc' = [wpc EXCEPT ![w] = "exited"]
               /\ UNCHANGED <<idleActive, wsess>>
  /\ UNCHANGED <<creds, client, pc, deferred, fetchLocals, connState, closeCalls, nextH,
                 inbox, out, history>>

\* ------------------------------------------------------------ Client.Close
Close(st, h) ==
  [connState  |-> [st.connState EXCEPT ![h] = "closed"],
   idleActive |-> [st.idleActive EXCEPT ![h] = FALSE],
   closeCalls |-> [st.closeCalls EXCEPT ![h] = @ + 1]]

\* the deferred calls of Run, last registered first
RECURSIVE RunDeferred(_, _)
RunDeferred(st, stack) ==
  IF stack = <<>> THEN st ELSE RunDeferred(Close(st, Head(stack)), Tail(stack))

\* Run, case <-e.quit: e.client.Close(true); return
Quit ==
  /\ pc = "select" /\ ~Crashed
  /\ LET st0 == [connState |-> connState, idleActive |-> idleActive, closeCalls |-> closeCalls]
         st1 == IF client = NilClient THEN st0 ELSE Close(st0, client)
         st2 == RunDeferred(st1, deferred)
     IN  /\ connState' = st2.connState
         /\ idleActive' = st2.idleActive
         /\ closeCalls' = st2.closeCalls
  /\ pc' = IF client = NilClient THEN "panic" ELSE "done"
  /\ deferred' = <<>>
  /\ UNCHANGED <<creds, client, fetchLocals, wpc, nextH, inbox, out, errs, history, wsess>>

\* ------------------------------------------------------------------ server
NewMail ==
  /\ inbox < MaxMsgs
  /\ inbox' = inbox + 1
  /\ UNCHANGED <<creds, client, pc, deferred, fetchLocals, wpc, connState, idleActive,
                 closeCalls, nextH, out, errs, history, wsess>>

Next ==
  \/ RuleReceive
  \/ RuleOpen
  \/ FetchSweep
  \/ FetchBatch
  \/ FetchEmit
  \/ RuleSpawn
  \/ Query
  \/ Quit
  \/ NewMail
  \/ \E w \in Watchers : IdleArm(w)

Spec == Init /\ [][Next]_vars

\* Go schedules every runnable goroutine: a step of Run that is not a receive,
\* and a goroutine that can run, is eventually taken.
FairSpec ==
  /\ Spec
  /\ WF_vars(RuleOpen) /\ WF_vars(FetchSweep) /\ WF_vars(FetchBatch)
  /\ WF_vars(FetchEmit) /\ WF_vars(RuleSpawn)
  /\ \A w \in Watchers : WF_vars(IdleArm(w))

\* ======================================================================
\* Properties
\* ======================================================================
Sessions == {h \in Handles : connState[h] = "selected"}
Alive == {w \in Watchers : wpc[w] \in {"arm", "send_poll"}}
Exited == \A w \in Watchers : wpc[w] \in {"none", "exited"}
OpenFailures == {"dial", "login", "select"}
InFetch == pc \in {"getEmails", "emit"}
MalformedRuleStep == nRules' = nRules + 1 /\ lastRule' = "malformed"
MarshalErrors == Len(SelectSeq(errs, LAMBDA m : m = "marshal"))

\* C1: in every reachable state at most one Session is open for the
\* component; after R1 then R2 both opened, R1's Session is closed.
C1_AtMostOneSessionOpen == Cardinality(Sessions) <= 1

\* C2: no fetch (sweep or batched retrieval of fetchUnread) runs on a Session
\* while an idle wait is active on that Session.
C2_NoFetchDuringIdle == InFetch => ~idleActive[client]

\* C3: once shutdown has been handled, every watcher goroutine eventually has
\* exited; none stays blocked forever.
C3_ShutdownStopsWatcher == (pc = "done") ~> Exited

\* C4: no Session ever receives a second Close call.
C4_ClosedAtMostOnce == \A h \in Handles : closeCalls[h] <= 1

\* C5: at most one Idle Watcher goroutine is alive in every reachable state.
C5_AtMostOneWatcher == Cardinality(Alive) <= 1

\* C6: a rule update that lacks a required field reports one error naming a
\* field, opens no Session, starts no watcher, leaves the prior Session and
\* e.client as they were, and leaves Run at its select.
C6_ValidationFailureLeavesSession ==
  [][MalformedRuleStep =>
       /\ pc' = "select"
       /\ \E k \in Keys : errs' = <<k>>
       /\ client' = client /\ nextH' = nextH
       /\ connState' = connState /\ idleActive' = idleActive /\ closeCalls' = closeCalls
       /\ wpc' = wpc /\ deferred' = deferred]_vars

\* C6 witness: a malformed rule has just been refused while the Session of an
\* earlier rule is open and current.
C6_Witness ==
  /\ lastRule = "malformed" /\ nRules = 2 /\ pc = "select"
  /\ client # NilClient /\ client \in Sessions
  /\ errs # <<>> /\ errs[1] \in Keys

\* C7: a rule update that fails validation leaves all four stored credential
\* fields as they were before it.
C7_CredentialsReplacedWholesale == [][MalformedRuleStep => UNCHANGED creds]_vars

\* C8: a query before any rule returns the factory defaults, and the next
\* query after an accepted rule {h, u, p, m} returns exactly h, u, p, m.
C8_QueryReturnsAcceptedRule ==
  lastReply.has =>
    IF accepted.has
      THEN /\ lastReply.Host = accepted.Host /\ lastReply.Username = accepted.Username
           /\ lastReply.Password = accepted.Password /\ lastReply.Mailbox = accepted.Mailbox
      ELSE nRules = 0 => lastReply.Host = "imap.gmail.com" /\ lastReply.Mailbox = "INBOX"

\* C9: after an open that failed, every earlier Session is closed, the handle
\* of the failed open is not e.client and is never closed or otherwise used,
\* and shutdown does not fault.
C9_FailedOpenLeavesNoHandle ==
  lastOpen \in OpenFailures =>
    /\ Sessions = {}
    /\ pc # "panic"
    /\ lastOpen # "dial" => client # nextH /\ closeCalls[nextH] = 0

\* C10 as stated: a fetchUnread call emits no more events than the sweep
\* returned identifiers, and fewer only if it returns an error, and then none.
C10_AllOrNothing ==
  fetchLog.done =>
    /\ Len(out) <= fetchLog.swept
    /\ Len(out) < fetchLog.swept => fetchLog.err /\ Len(out) = 0

\* C10 amended: a fetchUnread call emits no more events than the sweep
\* returned identifiers; if it returns an error it has emitted nothing; if it
\* returns success it has emitted one event per identifier except those whose
\* serialization failed, each of which was reported as an error.
C10_AllOrNothingButMarshal ==
  fetchLog.done =>
    /\ Len(out) <= fetchLog.swept
    /\ fetchLog.err => Len(out) = 0
    /\ ~fetchLog.err => /\ Len(out) = fetchLog.swept - fetchLog.dropped
                        /\ MarshalErrors = fetchLog.dropped

\* C10 witness: a fetch has returned success after a sweep of two identifiers,
\* one event emitted and one dropped for a serialization failure.
C10_Witness ==
  /\ fetchLog.done /\ ~fetchLog.err
  /\ fetchLog.swept = 2 /\ fetchLog.dropped = 1 /\ Len(out) = 1

\* the identifiers of a mailbox of n messages, in the server's order
Ids(n) == [i \in 1 .. n |-> i]
\* the identifiers of n messages without those at the positions in bad
Survivors(n, bad) == SelectSeq(Ids(n), LAMBDA i : i \notin bad)
WatcherStarts(w) == wpc[w] = "none" /\ wpc'[w] # "none"
WatcherArms(w) == wpc[w] = "arm" /\ wpc'[w] = "send_poll"

C16_WatcherReachesLoop ==
  \A w \in Watchers : (wpc[w] = "send_poll") ~> (wpc[w] # "send_poll")

\* C17: every command of a watcher goes to the Session that was current when
\* the watcher was started, never to one opened by a later update.
C17_WatcherBoundToItsSession ==
  \A w \in Watchers : wsess[w].armed # NilClient => wsess[w].armed = wsess[w].born

\* C18: when serializing events of a fetch fails, exactly those events are
\* dropped, each with an error report; all the others are emitted in server
\* order, and fetchUnread returns success, so Run goes on to start the watcher.
C18_MarshalFailureDropsOneEvent ==
  /\ [](fetchLog.done /\ ~fetchLog.err =>
          /\ out = Survivors(fetchLog.held, fetchLog.bad)
          /\ MarshalErrors = Cardinality(fetchLog.bad))
  /\ [][pc = "emit" /\ pc' # "emit" =>
          /\ pc' = "go_idle" /\ fetchLog'.done /\ ~fetchLog'.err
          /\ Len(errs') = Len(errs) + Cardinality(fetchLog'.bad)]_vars

\* C18 witness: of two events the first failed to serialize and the second
\* went out; the fetch returned success and the watcher has been started.
C18_Witness ==
  /\ fetchLog.done /\ ~fetchLog.err /\ fetchLog.held = 2 /\ fetchLog.bad = {1}
  /\ out = <<2>> /\ MarshalErrors = 1
  /\ pc = "select" /\ \E w \in Watchers : wpc[w] = "arm" /\ wsess[w].born = client

\* C19: a shutdown request never faults, whatever the controller has been
\* through: no Close is attempted on a client that does not exist.
C19_ShutdownNeverFaults == pc # "panic"
====
